---- MODULE Spec2Model ----
(***************************************************************************)
(* Model of scripts/export_engagements.py: the RateLimiter, the backoff    *)
(* delay, fetch_engagement's retry loop, the worker pool of main() and the *)
(* collection of results.                                                  *)
(*                                                                         *)
(* Time is an integer number of milliseconds (time.time() * 1000), so that *)
(* 1 / rate_limit is an integer for the default rate of 10 per second.     *)
(* Jitter is an integer number of thousandths (random.uniform * 1000).     *)
(***************************************************************************)
EXTENDS Integers, Sequences, FiniteSets

\* ------------------------------------------------------------------ bounds
\* Identifiers read from the CSV file in a pool run.
NumIds == 3
\* Requests one identifier may issue before the model stops it.
MaxRequests == 18
\* Throttled and unexpected responses the server gives one identifier.
MaxDetours == 1
\* Retryable failures the failing server of a pool run gives in the run.
MaxPoolRetries == 2
\* Calls of RateLimiter.wait by each thread of a limiter run.
MaxCalls == 2
\* Idle steps of the clock in a limiter run.
MaxIdle == 4
\* Milliseconds one HTTP request takes.
RequestTime == 20
\* Largest attempt calculate_retry_delay is called with directly.
MaxAttempt == 12
\* The jitter source walks through JitterSteps + 2 evenly spaced values.
JitterSteps == 0

\* --concurrency: threads of the pool.
Concurrency == 2

\* ------------------------------------------------------- program constants
\* --rate-limit default, requests per second.
RateLimit == 10

Ms(seconds) == seconds * 1000

\* max_retry_time = 3 * 24 * 60 * 60 seconds.
max_retry_time == Ms(3 * 24 * 60 * 60)
\* min_interval = 1.0 / self.rate_limit.
min_interval == Ms(1) \div RateLimit
\* A request to a server that is slow to answer takes a day and a half.
SlowRequestTime == Ms(36 * 60 * 60)
\* time.time() when the process starts: later than last_call = 0.0 by more
\* than any interval.
StartClock == Ms(1000)

Ids == 1 .. NumIds
Workers == 1 .. Concurrency
NoId == 0
NoHeader == -1

Min(a, b) == IF a < b THEN a ELSE b
Max(a, b) == IF a > b THEN a ELSE b

\* ---------------------------------------------------------------- values
\* HubSpotError: status_code and timestamp (message, body and headers do not
\* take part in any decision). The timestamp orders the records made for one
\* identifier: the model keeps the number of the response it was made from.
NoError == [status_code |-> -1, timestamp |-> 0]
HubSpotError(status, n) == [status_code |-> status, timestamp |-> n]

\* What fetch_engagement returns: None, a parsed body, or {"id", "error"}.
None == [kind |-> "none", id |-> NoId, body |-> "none", error |-> NoError]
Body(id, body) == [kind |-> "body", id |-> id, body |-> body, error |-> NoError]
ErrorDict(id, err) == [kind |-> "error", id |-> id, body |-> "none", error |-> err]

\* A future of the pool.
Pending == [st |-> "pending", data |-> None, via |-> "none"]
Running == [st |-> "running", data |-> None, via |-> "none"]
Returned(data, via) == [st |-> "returned", data |-> data, via |-> via]
Raised(via) == [st |-> "raised", data |-> None, via |-> via]

\* ------------------------------------------------------------- responses
\* A response: status, what resp.json() does with the body, and the three
\* rate-limit headers. A 200 body is a JSON object, a JSON object with an
\* "error" key, the JSON value null, or not JSON at all.
Statuses == {200, 400, 401, 403, 404, 418, 429, 500}
Bodies(status) ==
  IF status = 200 THEN {"object", "object_with_error_key", "null", "invalid"}
  ELSE {"object"}
\* Header values of the responses: X-HubSpot-RateLimit-Remaining,
\* X-RateLimit-Remaining, X-RateLimit-Reset, Retry-After (seconds).
HeaderSets ==
  { [hs_remaining |-> NoHeader, remaining |-> NoHeader, reset |-> NoHeader, retry_after |-> NoHeader],
    [hs_remaining |-> NoHeader, remaining |-> 1, reset |-> NoHeader, retry_after |-> 5],
    [hs_remaining |-> NoHeader, remaining |-> 0, reset |-> NoHeader, retry_after |-> NoHeader],
    [hs_remaining |-> NoHeader, remaining |-> 0, reset |-> NoHeader, retry_after |-> 5],
    [hs_remaining |-> 0, remaining |-> NoHeader, reset |-> 4 * 24 * 60 * 60, retry_after |-> 5],
    [hs_remaining |-> 5, remaining |-> 0, reset |-> NoHeader, retry_after |-> 5] }
Responses ==
  { [status |-> s, body |-> b, headers |-> h] :
      s \in Statuses, b \in {"object", "object_with_error_key", "null", "invalid"},
      h \in HeaderSets }
RealResponses == { r \in Responses : r.body \in Bodies(r.status) }
\* requests.get raises a RequestException: no response.
RequestException ==
  [status |-> 0, body |-> "none",
   headers |-> [hs_remaining |-> NoHeader, remaining |-> NoHeader,
                reset |-> NoHeader, retry_after |-> NoHeader]]
\* What a request of a fetch run may end in.
FetchResponses == RealResponses \cup {RequestException}
\* What a request of a pool run may end in.
PoolResponses ==
  { r \in RealResponses :
      /\ r.headers.hs_remaining = NoHeader /\ r.headers.remaining = NoHeader
      /\ r.status \in {200, 401, 404}
      /\ r.body \in {"object", "object_with_error_key", "null"} }

\* What a request of a pool run may end in when the server is failing.
RetryResponses ==
  { r \in RealResponses :
      /\ r.headers.hs_remaining = NoHeader /\ r.headers.remaining = NoHeader
      /\ r.status \in {200, 500}
      /\ r.body = "object" }

\* ------------------------------------------------- fetch_engagement, pure
\* remaining = headers.get('X-HubSpot-RateLimit-Remaining',
\*                         headers.get('X-RateLimit-Remaining'))
Remaining(h) == IF h.hs_remaining # NoHeader THEN h.hs_remaining ELSE h.remaining
\* if remaining and int(remaining) < 1
QuotaExhausted(h) == Remaining(h) # NoHeader /\ Remaining(h) < 1
\* A sleep that looks at Retry-After before X-RateLimit-Reset.
RetryAfterFirst(h) ==
  IF h.retry_after # NoHeader THEN h.retry_after
  ELSE IF h.reset # NoHeader THEN h.reset
  ELSE 60
\* float(headers.get('X-RateLimit-Reset', headers.get('Retry-After', 60)))
RetryAfter(h) ==
  IF h.reset # NoHeader THEN h.reset
  ELSE IF h.retry_after # NoHeader THEN h.retry_after
  ELSE 60

\* The classification with 404 missing from the permanent statuses.
ClassifyWithout404(r) ==
  IF r = RequestException THEN "exception"
  ELSE IF QuotaExhausted(r.headers) THEN "throttled"
  ELSE IF r.status = 200 THEN (IF r.body = "invalid" THEN "parse_failed" ELSE "success")
  ELSE IF r.status = 429 \/ r.status >= 500 THEN "retryable"
  ELSE IF r.status \in {400} THEN "permanent"
  ELSE IF r.status \in {401, 403} THEN "fatal"
  ELSE "unexpected"

\* A classification that looks at a 200 before the remaining quota.
ClassifyStatusFirst(r) ==
  IF r = RequestException THEN "exception"
  ELSE IF r.status = 200 THEN (IF r.body = "invalid" THEN "parse_failed" ELSE "success")
  ELSE IF QuotaExhausted(r.headers) THEN "throttled"
  ELSE IF r.status = 429 \/ r.status >= 500 THEN "retryable"
  ELSE IF r.status \in {400, 404} THEN "permanent"
  ELSE IF r.status \in {401, 403} THEN "fatal"
  ELSE "unexpected"

\* The branch of the loop body a response takes.
Classify(r) ==
  IF r = RequestException THEN "exception"
  ELSE IF QuotaExhausted(r.headers) THEN "throttled"
  ELSE IF r.status = 200 THEN (IF r.body = "invalid" THEN "parse_failed" ELSE "success")
  ELSE IF r.status = 429 \/ r.status >= 500 THEN "retryable"
  ELSE IF r.status \in {400, 404} THEN "permanent"
  ELSE IF r.status \in {401, 403} THEN "fatal"
  ELSE "unexpected"

\* resp.json() of a 200 whose body parses: the JSON value null is None.
ParsedBody(id, r) == IF r.body = "null" THEN None ELSE Body(id, r.body)

\* A delay whose base is not capped.
UncappedRetryDelay(n, jitter) == (60 * 2^n) * (1000 + jitter)
\* calculate_retry_delay, in milliseconds, for a jitter in thousandths.
CalculateRetryDelay(n, jitter) == Min(60 * 2^n, 28800) * (1000 + jitter)

\* random.uniform(-0.1, 0.1): the generator's state decides the value and
\* moves on with every draw.
Uniform(state) == (200 * state) \div (JitterSteps + 1) - 100
NextRandom(state) == (state + 1) % (JitterSteps + 2)

\* A loop that forgets attempt += 1.
SameAttempt(n, slept) == n
\* A loop that counts every round as an attempt.
EveryAttempt(n, slept) == n + 1
\* attempt += 1 once the backoff sleep has returned.
NextAttempt(n, slept) == IF slept = "backoff" THEN n + 1 ELSE n

\* A window of one hour.
WindowExceededEarly(now, start) == now - start > Ms(60 * 60)
\* time.time() - start_time > max_retry_time
WindowExceeded(now, start) == now - start > max_retry_time
\* A window check that gives up without its last error.
WindowOutcomeNone(id, err) == None
\* The return of the window check: the last error, or None without one.
WindowOutcome(id, err) == IF err # NoError THEN ErrorDict(id, err) ELSE None

\* main() submits worker(id, args, headers, params): the worker's
\* rate_limiter parameter keeps its default, None.
WorkerRateLimiter == "None"

\* main(): a future's result is appended unless it is None.
Collect(res, data) == IF data = None THEN res ELSE Append(res, data)
\* "error" in r
HasErrorKey(r) == r.kind = "error" \/ r.body = "object_with_error_key"

\* No time, no count, no status yet.
Never == -1

\* ------------------------------------------------- fetch_email_props.py
\* Strings that the program parses are sequences of characters.
MaxIdLen == 2
MaxHeaderLen == 2
StringsUpTo(chars, n) == UNION { [1 .. k -> chars] : k \in 0 .. n }
\* The emailId cells of the input CSV file.
EmailIds == StringsUpTo({" ", "7"}, MaxIdLen)
\* Values of a Retry-After header: digits, a sign, a letter as of an HTTP date.
RetryAfterTexts == StringsUpTo({"5", "-", "G"}, MaxHeaderLen)

\* str.strip()
RECURSIVE LStrip(_)
LStrip(s) == IF s # << >> /\ Head(s) = " " THEN LStrip(Tail(s)) ELSE s
RECURSIVE RStrip(_)
RStrip(s) ==
  IF s # << >> /\ s[Len(s)] = " " THEN RStrip(SubSeq(s, 1, Len(s) - 1)) ELSE s
Strip(s) == RStrip(LStrip(s))

\* int(text): an optional sign and decimal digits, or ValueError.
Digits == << "0", "1", "2", "3", "4", "5", "6", "7", "8", "9" >>
IsDigit(c) == \E k \in 1 .. Len(Digits) : Digits[k] = c
DigitValue(c) == (CHOOSE k \in 1 .. Len(Digits) : Digits[k] = c) - 1
IsDigits(s) == s # << >> /\ \A k \in 1 .. Len(s) : IsDigit(s[k])
RECURSIVE Number(_)
Number(s) ==
  IF s = << >> THEN 0
  ELSE 10 * Number(SubSeq(s, 1, Len(s) - 1)) + DigitValue(s[Len(s)])
IsInt(s) == IsDigits(s) \/ (Len(s) >= 2 /\ Head(s) \in {"-", "+"} /\ IsDigits(Tail(s)))
ParseInt(s) ==
  IF Head(s) = "-" THEN 0 - Number(Tail(s))
  ELSE IF Head(s) = "+" THEN Number(Tail(s)) ELSE Number(s)

\* PROPERTIES
PROPERTIES ==
  { "hs_email_status", "hs_email_error_message", "hs_email_post_send_status",
    "hs_email_message_id", "hs_email_thread_id", "hs_email_sent_via" }

\* What response.json() parses: JSON values, and a body that is not JSON.
JsonString(t) == [type |-> "string", members |-> << >>, text |-> t]
JsonNull == [type |-> "null", members |-> << >>, text |-> ""]
JsonArray == [type |-> "array", members |-> << >>, text |-> ""]
JsonObject(m) == [type |-> "object", members |-> m, text |-> ""]
NotJson == [type |-> "invalid", members |-> << >>, text |-> ""]
\* dict.get(key, default)
Get(d, key, default) == IF key \in DOMAIN d THEN d[key] ELSE default
\* str(value) of a parsed JSON string or null
Str(v) == IF v.type = "null" THEN "None" ELSE v.text

\* Bodies of a 200 response: every property, one property, a null property,
\* no "properties" key, "properties": null, a JSON array, not JSON.
EmailBodies ==
  { JsonObject([k \in {"properties"} |->
                 JsonObject([p \in PROPERTIES |-> JsonString("SENT")])]),
    JsonObject([k \in {"properties"} |->
                 JsonObject([p \in {"hs_email_status"} |-> JsonString("SENT")])]),
    JsonObject([k \in {"properties"} |->
                 JsonObject([p \in {"hs_email_status"} |-> JsonNull])]),
    JsonObject(<< >>),
    JsonObject([k \in {"properties"} |-> JsonNull]),
    JsonArray,
    NotJson }

\* Responses to the GET of one email; status 0 is a request that raised
\* requests.RequestException.
EmailResponse(status, headers, body) ==
  [status_code |-> status, headers |-> headers, body |-> body]
NoResponse == EmailResponse(Never, << >>, NotJson)
EmailResponses ==
  { EmailResponse(429, << >>, NotJson) }
    \cup { EmailResponse(429, [k \in {"Retry-After"} |-> t], NotJson) : t \in RetryAfterTexts }
    \cup { EmailResponse(200, << >>, b) : b \in EmailBodies }
    \cup { EmailResponse(s, << >>, NotJson) : s \in {0, 404, 500} }

\* How a call of fetch_email_properties ends: it returns a dict or an
\* exception leaves it.
NoResult == [kind |-> "none", value |-> << >>, exc |-> ""]
ReturnDict(m) == [kind |-> "dict", value |-> m, exc |-> ""]
Raise(e) == [kind |-> "raised", value |-> << >>, exc |-> e]
\* {prop: '' for prop in PROPERTIES}
EmptyProperties == [p \in PROPERTIES |-> ""]

\* The branch for status 200: response.json() and the dict comprehension. A
\* body that is not JSON raises an exception that is a RequestException in
\* requests 2.27 and later and a plain ValueError before.
Parse200(body) ==
  IF body.type = "invalid"
    THEN { ReturnDict(EmptyProperties), Raise("ValueError") }
  ELSE IF body.type # "object" THEN { Raise("AttributeError") }
  ELSE LET props == Get(body.members, "properties", JsonObject(<< >>)) IN
         IF props.type # "object" THEN { Raise("AttributeError") }
         ELSE { ReturnDict([p \in PROPERTIES |->
                              Str(Get(props.members, p, JsonString("")))]) }

\* What the function ends with after its last response.
FinishEmail(r) ==
  IF r.status_code = 200 THEN Parse200(r.body) ELSE { ReturnDict(EmptyProperties) }

\* No call of fetch_email_properties.
NoFetch ==
  [id |-> << >>, via |-> "none", pc |-> "none", gets |-> 0, slept |-> Never,
   first |-> NoResponse, final |-> NoResponse, result |-> NoResult, rows |-> << >>]

\* ---------------------------------------------------------------- state
VARIABLES
  clock,        \* time.time()
  rng,          \* state of the random module
  server,       \* the responses the API gives in this run
  queue,        \* work queue of the ThreadPoolExecutor
  fut,          \* the futures, by identifier
  pc,           \* where each thread is
  cur,          \* the identifier a thread works on
  attempt,      \* fetch_engagement: attempt
  start_time,   \* fetch_engagement: start_time
  last_error,   \* fetch_engagement: last_error
  wake,         \* when the thread's sleep or request ends
  results,      \* main: results
  completed,    \* main: completed
  consumed,     \* futures as_completed has yielded
  auth_error,   \* main: auth_error
  mainpc,       \* main: collecting, or done
  summary,      \* main: the summary it logs
  last_call,    \* RateLimiter.last_call
  lock,         \* RateLimiter._lock: its holder, or 0
  calls,        \* limiter run: calls of wait() made by each thread
  idle,         \* limiter run: idle steps taken
  nreq,         \* history: requests issued, by identifier
  nresp,        \* history: responses and request failures, by identifier
  ndet,         \* history: throttled and unexpected responses, by identifier
  failed,       \* history: the last failing response, by identifier
  nret,         \* history: retryable results received, by identifier
  seen,         \* history: status of the latest response, by identifier
  delays,       \* history: arguments of calculate_retry_delay, by identifier
  last_req,     \* history: time of the latest request of the run
  closest,      \* history: smallest gap between two requests of the run
  prev_call,    \* history: RateLimiter.last_call before the latest grant
  basis,        \* history: the last_call a thread computed its sleep from
  calc,         \* a direct call of calculate_retry_delay: argument, jitter, result
  latency,      \* milliseconds a request takes in this run
  detours,      \* throttled and unexpected responses one identifier may get
  email         \* fetch_email_props.py: one emailId, its requests and its result

vars ==
  << clock, rng, server, queue, fut, pc, cur, attempt, start_time,
     last_error, wake, results, completed, consumed, auth_error, mainpc, summary,
     last_call, lock, calls, idle, nreq, nresp, ndet, failed, nret, seen, delays,
     last_req, closest, prev_call, basis, calc, latency, detours, email >>

config == << server, calc, latency, detours >>
poolVars == << queue, fut, cur, attempt, start_time, last_error >>
mainVars == << results, completed, consumed, auth_error, mainpc, summary >>
limiterVars == << last_call, lock, calls, prev_call, basis >>
responseVars == << nresp, ndet, failed, nret, seen >>
requestVars == << nreq, last_req, closest >>

RunIds == DOMAIN fut

\* No direct call of calculate_retry_delay.
NoCall == [attempt |-> 0, jitter |-> 0, delay |-> Never]

InitCommon(ids, responses, seeds, where) ==
  /\ clock = StartClock
  /\ rng \in seeds
  /\ server \in responses
  /\ queue = ids
  /\ fut = [i \in { ids[k] : k \in 1 .. Len(ids) } |-> Pending]
  /\ pc = [w \in Workers |-> where]
  /\ cur = [w \in Workers |-> NoId]
  /\ attempt = [w \in Workers |-> 0]
  /\ start_time = [w \in Workers |-> 0]
  /\ last_error = [w \in Workers |-> NoError]
  /\ wake = [w \in Workers |-> 0]
  /\ results = << >>
  /\ completed = 0
  /\ consumed = {}
  /\ auth_error = FALSE
  /\ mainpc = "collect"
  /\ summary = [total_processed |-> -1, error_count |-> -1, succeeded |-> -1]
  /\ last_call = 0
  /\ lock = 0
  /\ calls = [w \in Workers |-> 0]
  /\ idle = 0
  /\ nreq = [i \in Ids |-> 0]
  /\ nresp = [i \in Ids |-> 0]
  /\ ndet = [i \in Ids |-> 0]
  /\ failed = [i \in Ids |-> NoError]
  /\ nret = [i \in Ids |-> 0]
  /\ seen = [i \in Ids |-> Never]
  /\ delays = [i \in Ids |-> << >>]
  /\ last_req = Never
  /\ closest = min_interval
  /\ prev_call = Never
  /\ basis = [w \in Workers |-> Never]

\* A server that answers in RequestTime, and no direct call of
\* calculate_retry_delay.
Quick ==
  calc = NoCall /\ latency = RequestTime /\ detours = MaxDetours /\ email = NoFetch

\* main() in fetch mode over the identifiers of the CSV file.
Init ==
  InitCommon([k \in 1 .. NumIds |-> k], {PoolResponses, RetryResponses}, {0}, "idle") /\ Quick
\* The same run over one identifier, with room for a whole retry window.
InitFetch ==
  InitCommon(<< 1 >>, {FetchResponses}, 0 .. JitterSteps + 1, "idle") /\ Quick
\* main() over one identifier against a server that is slow to answer and
\* may throttle or answer with unexpected statuses as often as it likes.
InitSlow ==
  /\ InitCommon(<< 1 >>, {FetchResponses}, 0 .. JitterSteps + 1, "idle")
  /\ calc = NoCall /\ latency = SlowRequestTime /\ detours = MaxRequests
  /\ email = NoFetch
\* Threads that call RateLimiter.wait directly.
InitLimiter == InitCommon(<< >>, {{}}, {0}, "caller") /\ Quick
\* One call of calculate_retry_delay, for any attempt and any jitter that
\* random.uniform(-0.1, 0.1) draws, in thousandths.
InitDelay ==
  /\ InitCommon(<< >>, {{}}, {0}, "idle")
  /\ calc \in [attempt : 0 .. MaxAttempt, jitter : -100 .. 100, delay : {Never}]
  /\ latency = RequestTime /\ detours = MaxDetours /\ email = NoFetch

\* fetch_email_properties called with an emailId as it is, or process_emails
\* reading it from a row of the input file.
InitEmail ==
  /\ InitCommon(<< >>, {{}}, {0}, "idle")
  /\ calc = NoCall /\ latency = RequestTime /\ detours = MaxDetours
  /\ \E id \in EmailIds, via \in {"direct", "process_emails"} :
       email = [NoFetch EXCEPT !.id = id, !.via = via,
                               !.pc = IF via = "direct" THEN "call" ELSE "row"]

\* ---------------------------------------------------------------- history
\* A response announces an exhausted quota: its remaining quota, which is the
\* HubSpot header's value when that header is there and the generic header's
\* otherwise, is below 1.
QuotaLow(r) ==
  \/ r.headers.hs_remaining # NoHeader /\ r.headers.hs_remaining < 1
  \/ r.headers.hs_remaining = NoHeader /\ r.headers.remaining # NoHeader
       /\ r.headers.remaining < 1
\* A response that is a failure of the request: any status but a 200 whose
\* body parses; a request that raised has status 0.
IsFailure(r) == r.status # 200 \/ r.body = "invalid"
IsRetryableResult(r) == r.status = 0 \/ r.status = 429 \/ r.status >= 500

\* The response r arrives for identifier i.
Observe(i, r) ==
  /\ nresp' = [nresp EXCEPT ![i] = @ + 1]
  /\ ndet' = [ndet EXCEPT ![i] =
       IF QuotaLow(r) \/ ~(IsRetryableResult(r) \/ r.status \in {200, 400, 401, 403, 404})
       THEN @ + 1 ELSE @]
  /\ failed' = [failed EXCEPT ![i] =
       IF ~QuotaLow(r) /\ IsFailure(r) THEN HubSpotError(r.status, nresp[i] + 1) ELSE @]
  /\ nret' = [nret EXCEPT ![i] =
       IF ~QuotaLow(r) /\ IsRetryableResult(r) THEN @ + 1 ELSE @]
  /\ seen' = [seen EXCEPT ![i] = r.status]

\* ------------------------------------------------------- the worker threads
\* A clock that stands still while a thread sleeps.
BlockedInRequest(w) == pc[w] = "inflight"
\* The thread is inside requests.get, time.sleep or the limiter's sleep.
Blocked(w) == pc[w] \in {"inflight", "backoff", "throttle", "rl_sleep"}

\* The thread leaves fetch_engagement and worker(): its future completes.
Finish(w, f) ==
  /\ fut' = [fut EXCEPT ![cur[w]] = f]
  /\ pc' = [pc EXCEPT ![w] = "idle"]
  /\ cur' = [cur EXCEPT ![w] = NoId]
  /\ attempt' = [attempt EXCEPT ![w] = 0]
  /\ start_time' = [start_time EXCEPT ![w] = 0]
  /\ last_error' = [last_error EXCEPT ![w] = NoError]
  /\ wake' = [wake EXCEPT ![w] = 0]

\* A pool thread that takes the next identifier while its request is still
\* in flight.
DispatchEarly(w) ==
  /\ pc[w] \in {"idle", "inflight"}
  /\ queue # << >>
  /\ LET i == Head(queue) IN
       /\ queue' = Tail(queue)
       /\ fut' = [fut EXCEPT ![i] = Running]
       /\ cur' = [cur EXCEPT ![w] = i]
  /\ pc' = [pc EXCEPT ![w] = "top"]
  /\ attempt' = [attempt EXCEPT ![w] = 0]
  /\ start_time' = [start_time EXCEPT ![w] = clock]
  /\ last_error' = [last_error EXCEPT ![w] = NoError]
  /\ wake' = [wake EXCEPT ![w] = clock]
  /\ UNCHANGED << clock, rng, config, email, mainVars, limiterVars, idle, responseVars,
                  delays, requestVars >>

\* A pool thread takes the next identifier: worker() calls fetch_engagement,
\* which sets attempt, start_time and last_error.
Dispatch(w) ==
  /\ pc[w] = "idle"
  /\ queue # << >>
  /\ LET i == Head(queue) IN
       /\ queue' = Tail(queue)
       /\ fut' = [fut EXCEPT ![i] = Running]
       /\ cur' = [cur EXCEPT ![w] = i]
  /\ pc' = [pc EXCEPT ![w] = "top"]
  /\ attempt' = [attempt EXCEPT ![w] = 0]
  /\ start_time' = [start_time EXCEPT ![w] = clock]
  /\ last_error' = [last_error EXCEPT ![w] = NoError]
  /\ wake' = [wake EXCEPT ![w] = clock]
  /\ UNCHANGED << clock, rng, config, email, mainVars, limiterVars, idle, responseVars,
                  delays, requestVars >>

\* requests.get is called.
Request(w) ==
  /\ nreq' = [nreq EXCEPT ![cur[w]] = @ + 1]
  /\ last_req' = clock
  /\ closest' = IF last_req = Never THEN closest ELSE Min(closest, clock - last_req)
  /\ pc' = [pc EXCEPT ![w] = "inflight"]
  /\ wake' = [wake EXCEPT ![w] = clock + latency]

\* The loop goes round: a sleep that has ended (after a backoff sleep,
\* attempt += 1), then the window check, then the limiter if there is one,
\* then the request.
LoopTop(w) ==
  /\ pc[w] \in {"top", "backoff", "throttle"}
  /\ clock >= wake[w]
  /\ WindowExceeded(clock, start_time[w]) \/ nreq[cur[w]] < MaxRequests
  /\ IF WindowExceeded(clock, start_time[w])
       THEN /\ Finish(w, Returned(WindowOutcome(cur[w], last_error[w]), "window"))
            /\ UNCHANGED requestVars
       ELSE /\ attempt' = [attempt EXCEPT ![w] = NextAttempt(@, pc[w])]
            /\ IF WorkerRateLimiter = "None"
                 THEN Request(w)
                 ELSE /\ pc' = [pc EXCEPT ![w] = "wait"]
                      /\ UNCHANGED << wake, requestVars >>
            /\ UNCHANGED << fut, cur, start_time, last_error >>
  /\ UNCHANGED << clock, rng, config, email, queue, mainVars, limiterVars, idle,
                  responseVars, delays >>

\* The retryable branches: the error is kept, the delay computed and slept.
Backoff(w, status) ==
  /\ last_error' = [last_error EXCEPT ![w] = HubSpotError(status, nresp[cur[w]] + 1)]
  /\ delays' = [delays EXCEPT ![cur[w]] = Append(@, attempt[w])]
  /\ wake' = [wake EXCEPT ![w] = clock + CalculateRetryDelay(attempt[w], Uniform(rng))]
  /\ rng' = NextRandom(rng)
  /\ pc' = [pc EXCEPT ![w] = "backoff"]
  /\ UNCHANGED << queue, fut, cur, attempt, start_time >>

\* Retryable failures the run has had, over the identifiers 1 .. n.
RECURSIVE Failures(_)
Failures(n) == IF n = 0 THEN 0 ELSE nret[n] + Failures(n - 1)

\* The server gives an identifier at most `detours' responses that make the
\* loop go round without a backoff, and the failing server of a pool run
\* fails at most MaxPoolRetries requests.
Allowed(i, r) ==
  /\ Classify(r) \in {"throttled", "unexpected"} => ndet[i] < detours
  /\ (server = RetryResponses /\ Classify(r) = "retryable") =>
       Failures(NumIds) < MaxPoolRetries

\* requests.get returns r or raises: the body of the try statement and its
\* except clause.
Receive(w, r) ==
  /\ pc[w] = "inflight"
  /\ clock >= wake[w]
  /\ Allowed(cur[w], r)
  /\ Observe(cur[w], r)
  /\ LET i == cur[w]
         n == nresp[cur[w]] + 1
     IN CASE Classify(r) = "exception" ->
               \* except requests.RequestException
               Backoff(w, 0)
          [] Classify(r) = "throttled" ->
               \* time.sleep(retry_after); continue
               /\ pc' = [pc EXCEPT ![w] = "throttle"]
               /\ wake' = [wake EXCEPT ![w] = clock + Ms(RetryAfter(r.headers))]
               /\ UNCHANGED << rng, poolVars, delays >>
          [] Classify(r) = "success" ->
               \* return resp.json()
               /\ Finish(w, Returned(ParsedBody(i, r), "success"))
               /\ UNCHANGED << rng, queue, delays >>
          [] Classify(r) = "parse_failed" ->
               \* resp.json() raises ValueError
               /\ Finish(w, Returned(ErrorDict(i, HubSpotError(200, n)), "parse"))
               /\ UNCHANGED << rng, queue, delays >>
          [] Classify(r) = "retryable" ->
               \* 429 or a status of 500 and above
               Backoff(w, r.status)
          [] Classify(r) = "permanent" ->
               \* 400 or 404
               /\ Finish(w, Returned(ErrorDict(i, HubSpotError(r.status, n)), "permanent"))
               /\ UNCHANGED << rng, queue, delays >>
          [] Classify(r) = "fatal" ->
               \* 401 or 403: RuntimeError leaves fetch_engagement and worker()
               /\ Finish(w, Raised("auth"))
               /\ UNCHANGED << rng, queue, delays >>
          [] OTHER ->
               \* any other status: the error is kept and the loop goes round
               /\ last_error' = [last_error EXCEPT ![w] = HubSpotError(r.status, n)]
               /\ pc' = [pc EXCEPT ![w] = "top"]
               /\ UNCHANGED << rng, queue, fut, cur, attempt, start_time, wake, delays >>
  /\ UNCHANGED << clock, config, email, mainVars, limiterVars, idle, requestVars >>

\* A thread that goes on at once: an idle thread with work in the queue, and
\* a thread whose sleep has ended. A request may take longer than RequestTime.
Ready(w) ==
  \/ pc[w] = "idle" /\ queue # << >>
  \/ pc[w] \in {"top", "backoff", "throttle"} /\ clock >= wake[w]

\* Time passes, while no thread is ready, until the next sleep or request
\* ends.
Tick ==
  /\ \E w \in Workers : Blocked(w) /\ wake[w] > clock
  /\ \A w \in Workers : ~Ready(w)
  /\ clock' = CHOOSE t \in { wake[w] : w \in { v \in Workers : Blocked(v) /\ wake[v] > clock } } :
                \A w \in Workers : (Blocked(w) /\ wake[w] > clock) => t <= wake[w]
  /\ UNCHANGED << rng, config, email, poolVars, pc, wake, mainVars, limiterVars, idle,
                  responseVars, delays, requestVars >>

\* ------------------------------------------------------------------ main
Done(i) == fut[i].st \in {"returned", "raised"}

\* One round of the as_completed loop: fut.result() returns or raises; the
\* except clause only logs.
MainCollect(i) ==
  /\ mainpc = "collect"
  /\ i \in RunIds \ consumed
  /\ Done(i)
  /\ consumed' = consumed \cup {i}
  /\ IF fut[i].st = "raised"
       THEN UNCHANGED << results, completed >>
       ELSE /\ results' = Collect(results, fut[i].data)
            /\ completed' = Len(results')
  /\ UNCHANGED << clock, rng, config, email, poolVars, pc, wake, auth_error, mainpc, summary,
                  limiterVars, idle, responseVars, delays, requestVars >>

\* errors = [r["error"] for r in results if "error" in r]
Errors(res) == SelectSeq(res, HasErrorKey)

\* The pool has drained: the error summary and the closing log line.
MainSummary ==
  /\ mainpc = "collect"
  /\ consumed = RunIds
  /\ summary' = [total_processed |-> Len(results),
                 error_count |-> Len(Errors(results)),
                 succeeded |-> Len(results) - Len(Errors(results))]
  /\ mainpc' = "done"
  /\ UNCHANGED << clock, rng, config, email, poolVars, pc, wake, results, completed, consumed,
                  auth_error, limiterVars, idle, responseVars, delays, requestVars >>

\* ----------------------------------------------------------- RateLimiter
\* A wait() that does not take the lock.
NoLock == TRUE
\* with self._lock
LockFree == lock = 0

\* wait(): the lock is taken, now and elapsed are computed, and the thread
\* sleeps for what is missing of min_interval.
WaitEnter(w) ==
  /\ \/ pc[w] = "wait"
     \/ pc[w] = "caller" /\ calls[w] < MaxCalls
  /\ LockFree
  /\ lock' = w
  /\ calls' = [calls EXCEPT ![w] = @ + 1]
  /\ basis' = [basis EXCEPT ![w] = last_call]
  /\ LET elapsed == clock - last_call IN
       /\ pc' = [pc EXCEPT ![w] = IF elapsed < min_interval THEN "rl_sleep" ELSE "rl_stamp"]
       /\ wake' = [wake EXCEPT ![w] =
            IF elapsed < min_interval THEN clock + (min_interval - elapsed) ELSE clock]
  /\ UNCHANGED << clock, rng, config, email, poolVars, mainVars, last_call, prev_call, idle,
                  responseVars, delays, requestVars >>

\* self.last_call = time.time(); the lock is released and wait() returns. In
\* fetch_engagement the request follows.
WaitExit(w) ==
  /\ pc[w] \in {"rl_sleep", "rl_stamp"}
  /\ clock >= wake[w]
  /\ prev_call' = last_call
  /\ last_call' = clock
  /\ lock' = 0
  /\ IF cur[w] = NoId
       THEN /\ pc' = [pc EXCEPT ![w] = "caller"]
            /\ UNCHANGED << wake, requestVars >>
       ELSE Request(w)
  /\ basis' = [basis EXCEPT ![w] = Never]
  /\ UNCHANGED << clock, rng, config, email, poolVars, mainVars, calls, idle,
                  responseVars, delays >>

\* Time passes while the threads of a limiter run are busy elsewhere.
Idle ==
  /\ idle < MaxIdle
  /\ idle' = idle + 1
  /\ clock' = clock + min_interval \div 2
  /\ UNCHANGED << rng, config, email, poolVars, pc, wake, mainVars, limiterVars,
                  responseVars, delays, requestVars >>

\* ------------------------------------------------- calculate_retry_delay
\* delay = calculate_retry_delay(attempt)
CallDelay ==
  /\ calc.delay = Never
  /\ calc' = [calc EXCEPT !.delay = CalculateRetryDelay(calc.attempt, calc.jitter)]
  /\ UNCHANGED << clock, rng, server, latency, detours, email, poolVars, pc, wake, mainVars,
                  limiterVars, idle, responseVars, delays, requestVars >>

\* -------------------------------------------------- fetch_email_props.py
exportVars ==
  << clock, rng, config, poolVars, pc, wake, mainVars, limiterVars, idle,
     responseVars, delays, requestVars >>

\* process_emails, one row: the cell is stripped and a blank one is skipped;
\* fetch_email_properties is called with the stripped identifier.
ProcessRow ==
  /\ email.pc = "row"
  /\ LET email_id == Strip(email.id) IN
       email' = IF email_id = << >>
                  THEN [email EXCEPT !.pc = "skipped"]
                  ELSE [email EXCEPT !.pc = "call", !.id = email_id]
  /\ UNCHANGED exportVars

\* if not email_id.strip(): return {prop: '' for prop in PROPERTIES}
ReturnBlank ==
  /\ email.pc = "call"
  /\ Strip(email.id) = << >>
  /\ email' = [email EXCEPT !.pc = "returned", !.result = ReturnDict(EmptyProperties)]
  /\ UNCHANGED exportVars

\* The call has ended with res.
EndEmail(e, res) ==
  [e EXCEPT !.result = res, !.pc = IF res.kind = "dict" THEN "returned" ELSE "raised"]

\* The first requests.get answers r. A 429 leads to int() of the Retry-After
\* header, '60' when there is none, and to time.sleep, which raises
\* ValueError for a negative length; any other answer ends the call.
FirstGet(r) ==
  /\ email.pc = "call"
  /\ Strip(email.id) # << >>
  /\ LET e == [email EXCEPT !.gets = 1, !.first = r, !.final = r] IN
       IF r.status_code = 429
         THEN LET text == Get(r.headers, "Retry-After", << "6", "0" >>) IN
                email' = IF ~IsInt(text) \/ ParseInt(text) < 0
                           THEN EndEmail(e, Raise("ValueError"))
                           ELSE [e EXCEPT !.pc = "sleep", !.slept = ParseInt(text)]
         ELSE \E res \in FinishEmail(r) : email' = EndEmail(e, res)
  /\ UNCHANGED exportVars

\* The sleep is over and the second requests.get answers r, which ends the
\* call.
SecondGet(r) ==
  /\ email.pc = "sleep"
  /\ \E res \in FinishEmail(r) :
       email' = EndEmail([email EXCEPT !.gets = 2, !.final = r], res)
  /\ UNCHANGED exportVars

\* writer.writerow({'emailId': email_id, **props})
WriteRow ==
  /\ email.via = "process_emails"
  /\ email.pc = "returned"
  /\ email' = [email EXCEPT !.pc = "written",
                 !.rows = Append(@, [emailId |-> email.id, props |-> email.result.value])]
  /\ UNCHANGED exportVars

\* ------------------------------------------------------- specifications
Next ==
  \/ \E w \in Workers : Dispatch(w)
  \/ \E w \in Workers : LoopTop(w)
  \/ \E w \in Workers, r \in server : Receive(w, r)
  \/ \E i \in Ids : MainCollect(i)
  \/ MainSummary
  \/ Tick

NextLimiter ==
  \/ \E w \in Workers : WaitEnter(w)
  \/ \E w \in Workers : WaitExit(w)
  \/ Idle
  \/ Tick

NextDelay == CallDelay

NextEmail ==
  \/ ProcessRow
  \/ ReturnBlank
  \/ \E r \in EmailResponses : FirstGet(r)
  \/ \E r \in EmailResponses : SecondGet(r)
  \/ WriteRow

\* main() over NumIds identifiers with Concurrency threads.
Spec == Init /\ [][Next]_vars
\* main() over one identifier.
SpecFetch == InitFetch /\ [][Next]_vars
\* Concurrency threads calling RateLimiter.wait.
SpecLimiter == InitLimiter /\ [][NextLimiter]_vars
\* One call of calculate_retry_delay.
SpecDelay == InitDelay /\ [][NextDelay]_vars
\* One emailId through fetch_email_props.py.
SpecEmail == InitEmail /\ [][NextEmail]_vars
\* The clock advances, every request and every sleep returns, and a thread
\* that can run does.
Progress ==
  /\ WF_vars(Tick)
  /\ \A w \in Workers :
       /\ WF_vars(Dispatch(w))
       /\ WF_vars(LoopTop(w))
       /\ WF_vars(\E r \in server : Receive(w, r))
\* main() over one identifier against the slow server, with progress.
SpecSlow == InitSlow /\ [][Next]_vars /\ Progress

\* ---------------------------------------------------------------- claims
\* Entries of results that belong to identifier i.
Outcomes(i) == { k \in 1 .. Len(results) : results[k].id = i }
Returns(i) == fut[i].st = "returned"
FatalObserved == \E i \in consumed : fut[i].st = "raised"

\* C1 as stated: every identifier whose fetch completed without a fatal abort
\* has exactly one outcome in results once main has collected it.
C1_ExactlyOneOutcome ==
  \A i \in consumed : Returns(i) => Cardinality(Outcomes(i)) = 1

\* C2: an identifier whose fetch met a 401 or 403 has, once main has collected
\* it, an Error outcome with that status in results.
C2_FatalOutcomeRecorded ==
  \A i \in consumed :
    fut[i].st = "raised" =>
      \E k \in Outcomes(i) :
        /\ results[k].kind = "error"
        /\ results[k].error.status_code = failed[i].status_code
        /\ results[k].error.status_code \in {401, 403}

\* C3: once main has observed a fatal signal, no identifier issues its first
\* request.
C3_NoStartAfterFatal ==
  [][ FatalObserved => \A i \in Ids : (nreq[i] = 0 => nreq'[i] = 0) ]_vars

\* C4: the finished run reports an abort exactly when some identifier ended
\* in a fatal classification.
C4_AbortReported ==
  mainpc = "done" => (auth_error <=> \E i \in RunIds : fut[i].st = "raised")

\* C5: two consecutive grants of the limiter are at least min_interval apart,
\* and a thread inside wait() holds the lock and has computed its sleep from
\* the latest grant.
C5_GrantsSpaced ==
  /\ prev_call # Never => last_call - prev_call >= min_interval
  /\ \A w \in Workers :
       pc[w] \in {"rl_sleep", "rl_stamp"} => lock = w /\ basis[w] = last_call

\* Every thread has called wait(), and the latest grant came exactly
\* min_interval after the one before: its thread slept.
C5_Witness ==
  /\ \A w \in Workers : calls[w] >= 1
  /\ prev_call > 0
  /\ last_call = prev_call + min_interval

\* C6: any two requests of the run are at least min_interval apart.
C6_RequestsSpaced == closest >= min_interval

\* C7: while an identifier is in progress, the time since its start is within
\* the retry window.
C7_WithinWindow ==
  \A w \in Workers : cur[w] # NoId => clock - start_time[w] <= max_retry_time

\* Identifiers whose every response so far was a retryable error, but for
\* the last one where that is stated.
OnlyRetryables(i) == ndet[i] = 0 /\ nret[i] = nresp[i]
ThenOneMore(i) == ndet[i] = 0 /\ nresp[i] = nret[i] + 1

\* C8: when the window check at the start of an attempt finds the window
\* exceeded, the identifier ends there without a request being issued; what
\* it returns is the Error of the most recently failed response, or None if
\* no response had failed.
C8_WindowEndsWithLastError ==
  /\ [](\A i \in RunIds :
          (Returns(i) /\ fut[i].via = "window") =>
            /\ fut[i].data = IF failed[i] = NoError THEN None
                             ELSE ErrorDict(i, failed[i])
            /\ nreq[i] = nresp[i])
  /\ [][ \A w \in Workers :
           ( /\ pc[w] \in {"top", "backoff", "throttle"}
             /\ pc'[w] # pc[w]
             /\ WindowExceeded(clock, start_time[w]) )
           => /\ fut'[cur[w]].st = "returned"
              /\ fut'[cur[w]].via = "window"
              /\ nreq' = nreq ]_vars

\* An identifier answered by nothing but 500s has run out of its window and
\* returned the Error of the last of them.
C8_Witness ==
  \E i \in RunIds :
    /\ Returns(i) /\ fut[i].via = "window"
    /\ OnlyRetryables(i) /\ nret[i] >= 2
    /\ fut[i].data.kind = "error"
    /\ fut[i].data.error = HubSpotError(500, nresp[i])

\* C9: the delays computed for an identifier are one per retryable failure,
\* from the attempt values 0, 1, 2, ... in order; a 200 with a parseable body
\* after k retryable failures returns the parsed body after exactly k delays.
C9_DelaysFollowAttempts ==
  \A i \in RunIds :
    /\ ndet[i] = 0 => delays[i] = [j \in 1 .. nret[i] |-> j - 1]
    /\ (Returns(i) /\ fut[i].via = "success" /\ ThenOneMore(i)) =>
         /\ fut[i].data.kind # "error"
         /\ Len(delays[i]) = nret[i]
         /\ nreq[i] = nret[i] + 1

\* Two retryable failures, then a 200 whose body parsed to an object: two
\* delays, from the attempt values 0 and 1.
C9_Witness ==
  \E i \in RunIds :
    /\ Returns(i) /\ fut[i].via = "success" /\ ThenOneMore(i)
    /\ nret[i] = 2 /\ failed[i].status_code = 500
    /\ delays[i] = << 0, 1 >>
    /\ fut[i].data.kind = "body"

\* C10: a response with status 400 or 404, or a 200 whose body does not
\* parse, ends the identifier in the step that receives it, with an Error
\* carrying that status and with no delay computed; an identifier that has
\* ended issues no further request.
C10_PermanentEndsAtOnce ==
  /\ [](\A i \in RunIds :
          (Returns(i) /\ fut[i].via \in {"permanent", "parse"}) =>
            /\ fut[i].data = ErrorDict(i, failed[i])
            /\ failed[i].timestamp = nresp[i]
            /\ failed[i].status_code \in
                 (IF fut[i].via = "parse" THEN {200} ELSE {400, 404})
            /\ nreq[i] = nresp[i])
  /\ [][ \A i \in RunIds :
           /\ ( /\ nresp'[i] # nresp[i]
                /\ failed'[i].timestamp = nresp'[i]
                /\ failed'[i].status_code \in {200, 400, 404} )
              => /\ fut'[i].st = "returned"
                 /\ fut'[i].data = ErrorDict(i, failed'[i])
                 /\ delays' = delays
                 /\ nreq' = nreq
           /\ fut[i].st \in {"returned", "raised"} => nreq'[i] = nreq[i] ]_vars

\* A 404 on the first attempt: returned as an Error with status 404 after one
\* request and no delay.
C10_Witness ==
  \E i \in RunIds :
    /\ Returns(i) /\ fut[i].via = "permanent"
    /\ fut[i].data.kind = "error" /\ fut[i].data.error.status_code = 404
    /\ nreq[i] = 1 /\ delays[i] = << >>

\* C11: while an identifier is in progress its attempt counter is the number
\* of retryable results it has received, less the one whose backoff sleep is
\* still running: it starts at 0, never decreases, and a step raises it by
\* exactly 1, and only as a backoff sleep ends; throttled and unexpected
\* responses do not count.
C11_AttemptCountsRetryables ==
  /\ [](\A w \in Workers :
          cur[w] # NoId =>
            attempt[w] = nret[cur[w]] - (IF pc[w] = "backoff" THEN 1 ELSE 0))
  /\ [][ \A w \in Workers :
           (cur[w] # NoId /\ cur'[w] = cur[w]) =>
             \/ attempt'[w] = attempt[w]
             \/ /\ attempt'[w] = attempt[w] + 1
                /\ pc[w] = "backoff" /\ clock >= wake[w]
                /\ failed[cur[w]].status_code \in {0, 429, 500} ]_vars

\* An identifier in progress has had two retryable results and one throttled
\* or unexpected response, and its counter is 2.
C11_Witness ==
  \E w \in Workers :
    /\ cur[w] # NoId /\ pc[w] = "inflight"
    /\ attempt[w] = 2 /\ nret[cur[w]] = 2 /\ ndet[cur[w]] = 1

\* The thread's throttle sleep has ended and the thread moves on.
LeavesThrottle(w) == pc[w] = "throttle" /\ pc'[w] # "throttle"
\* The sleep a throttled response asks for, in seconds.
ThrottleSeconds(r) ==
  CASE r.headers.reset # NoHeader -> r.headers.reset
    [] r.headers.reset = NoHeader /\ r.headers.retry_after # NoHeader -> r.headers.retry_after
    [] OTHER -> 60
\* A response whose remaining quota is below 1 puts the thread to sleep for
\* the time its headers ask for, with the attempt counter as it was.
ThrottleSleeps ==
  \A w \in Workers, r \in server :
    (Receive(w, r) /\ QuotaLow(r)) =>
      /\ pc'[w] = "throttle"
      /\ wake'[w] = clock + 1000 * ThrottleSeconds(r)
      /\ attempt'[w] = attempt[w] /\ cur'[w] = cur[w]

EndedInError == { i \in RunIds : Returns(i) /\ fut[i].data.kind = "error" }
\* Identifiers with an outcome in results.
WithOutcome == { i \in RunIds : Outcomes(i) # {} }

\* C14: when the run is done, the summary's total is the number of
\* identifiers with an outcome, its error count the number of identifiers
\* whose fetch ended in an Error, and its successes the difference.
C14_SummaryCounts ==
  mainpc = "done" =>
    /\ summary.total_processed = Cardinality(WithOutcome)
    /\ summary.error_count = Cardinality(EndedInError)
    /\ summary.succeeded = summary.total_processed - summary.error_count

\* Identifiers whose fetch is in progress.
InProgress == { i \in RunIds : fut[i].st = "running" }

\* C15: at most Concurrency identifiers are in progress; they are exactly
\* the identifiers the threads are working on, one thread each, so a thread
\* takes no identifier before its own has ended; and an identifier has at most
\* one request unanswered, which is the one its thread is waiting for, so a
\* request is issued only when every earlier one has been answered.
C15_BoundedAndSequential ==
  /\ Cardinality(InProgress) <= Concurrency
  /\ InProgress = { cur[w] : w \in Workers } \ {NoId}
  /\ \A v, w \in Workers : (v # w /\ cur[v] # NoId) => cur[v] # cur[w]
  /\ \A i \in RunIds :
       /\ nreq[i] - nresp[i] \in {0, 1}
       /\ nreq[i] > nresp[i] <=> \E w \in Workers : cur[w] = i /\ pc[w] = "inflight"
       /\ fut[i].st = "pending" => nreq[i] = 0

\* Every thread is at work, an identifier is still queued, and one
\* identifier's second request is in flight.
C15_Witness ==
  /\ Cardinality(InProgress) = Concurrency
  /\ queue # << >>
  /\ \E w \in Workers : pc[w] = "inflight" /\ nreq[cur[w]] = 2 /\ nresp[cur[w]] = 1

\* A response whose remaining quota is below 1 is not classified by its
\* status: no future completes, no error is kept, no delay is computed, and
\* the thread sleeps.
ThrottleOnly ==
  \A w \in Workers, r \in server :
    (Receive(w, r) /\ QuotaLow(r)) =>
      /\ pc'[w] = "throttle" /\ cur'[w] = cur[w]
      /\ fut' = fut /\ last_error' = last_error
      /\ delays' = delays /\ rng' = rng /\ attempt' = attempt

Unexpected(r) ==
  /\ r # RequestException /\ ~QuotaLow(r)
  /\ r.status \notin {200, 400, 401, 403, 404, 429} /\ r.status < 500
\* Such a response is kept as the last error and nothing else happens: no
\* delay, no sleep, the same attempt counter, no future completed.
SoftContinue ==
  \A w \in Workers, r \in server :
    (Receive(w, r) /\ Unexpected(r)) =>
      /\ last_error'[w] = HubSpotError(r.status, nresp[cur[w]] + 1)
      /\ delays' = delays /\ rng' = rng /\ wake' = wake
      /\ attempt' = attempt /\ fut' = fut /\ cur' = cur
      /\ pc'[w] = "top"
\* The thread is at the top of the loop after an unexpected response.
AfterUnexpected(w) ==
  /\ pc[w] = "top" /\ cur[w] # NoId
  /\ seen[cur[w]] \notin {Never, 0, 200, 400, 401, 403, 404, 429}
  /\ seen[cur[w]] < 500
  /\ last_error[w].status_code = seen[cur[w]]

\* C17: a response with an unexpected status is a soft continue, and the
\* next attempt is the window check, then a permit of the rate limiter, then
\* the request.
C17_SoftContinueWithPermit ==
  [][ /\ SoftContinue
      /\ \A w \in Workers :
           (AfterUnexpected(w) /\ pc'[w] # "top") =>
             IF WindowExceeded(clock, start_time[w])
               THEN fut'[cur[w]] = Returned(ErrorDict(cur[w], last_error[w]), "window")
               ELSE pc'[w] \in {"rl_sleep", "rl_stamp"} /\ nreq' = nreq ]_vars

\* What the code does after an unexpected status: the window check and the
\* request, with no sleep and no permit between them.
SoftContinueWithoutPermit ==
  [][ /\ SoftContinue
      /\ \A w \in Workers :
           (AfterUnexpected(w) /\ pc'[w] # "top") =>
             IF WindowExceeded(clock, start_time[w])
               THEN fut'[cur[w]] = Returned(ErrorDict(cur[w], last_error[w]), "window")
               ELSE /\ pc'[w] = "inflight" /\ clock' = clock
                    /\ nreq'[cur[w]] = nreq[cur[w]] + 1 ]_vars

\* The status of a retryable failure: 429, 500 and above, or 0 for a request
\* that raised.
TransientStatus(s) == s = 0 \/ s = 429 \/ s >= 500

\* C18: an Error with the status of a retryable failure is returned only by
\* the window check, at a time when more than the retry window has elapsed
\* since the identifier's start; and every Error returned is the record of a
\* failed response that was not throttled, so throttled responses alone give
\* no Error.
C18_TransientOnlyAtWindow ==
  /\ [](\A i \in RunIds :
          (Returns(i) /\ fut[i].data.kind = "error") =>
            /\ failed[i] # NoError /\ fut[i].data.error = failed[i]
            /\ TransientStatus(fut[i].data.error.status_code) => fut[i].via = "window")
  /\ [][ \A w \in Workers :
           ( /\ cur[w] # NoId
             /\ fut'[cur[w]].st = "returned"
             /\ fut'[cur[w]].data.kind = "error"
             /\ TransientStatus(fut'[cur[w]].data.error.status_code) )
           => clock - start_time[w] > 3 * 24 * 60 * 60 * 1000 ]_vars

\* An identifier whose requests all raised, but for one throttled response,
\* has returned the Error of the last failure from the window check.
C18_Witness ==
  \E i \in RunIds :
    /\ Returns(i) /\ fut[i].via = "window"
    /\ fut[i].data.kind = "error" /\ fut[i].data.error.status_code = 0
    /\ ndet[i] = 1 /\ nret[i] + 1 = nresp[i]

EndedInSuccess == { i \in RunIds : Returns(i) /\ fut[i].data.kind # "error" }

\* C20: when a run in which some identifier met a 401 or 403 is done, every
\* other identifier whose fetch ended has exactly its outcome in results, once,
\* and the summary counts it as the success or the error it was.
C20_OthersKeepOutcomes ==
  (mainpc = "done" /\ \E f \in RunIds : fut[f].st = "raised") =>
    /\ \A i \in RunIds :
         Returns(i) =>
           \E k \in 1 .. Len(results) :
             /\ Outcomes(i) = {k}
             /\ results[k].kind = IF i \in EndedInError THEN "error" ELSE "body"
             /\ i \in EndedInError => results[k].error = failed[i]
    /\ summary.error_count = Cardinality(EndedInError)
    /\ summary.succeeded = Cardinality(EndedInSuccess)

\* What does hold: a future that raised leaves results as they were, and
\* every record a fetch returned is in results once, unchanged, whether it
\* was collected before or after the future that raised.
FatalLeavesResultsAlone ==
  /\ [](\A i \in consumed :
          (Returns(i) /\ fut[i].data # None) =>
            \E k \in 1 .. Len(results) : Outcomes(i) = {k} /\ results[k] = fut[i].data)
  /\ [][ \A i \in RunIds :
           (MainCollect(i) /\ fut[i].st = "raised") => results' = results ]_vars

\* The call of fetch_email_properties has ended, by a return or otherwise.
EmailEnded == email.pc \in {"returned", "raised", "written"}
\* Seconds the first response asks to wait: its Retry-After, or 60.
RetryAfterSeconds == ParseInt(Get(email.first.headers, "Retry-After", << "6", "0" >>))
\* At most two requests, the second only after a 429 and a sleep of its
\* Retry-After; none for a blank emailId.
EmailRequestsBounded ==
  /\ email.gets <= 2
  /\ email.gets = 2 =>
       email.first.status_code = 429 /\ email.slept = RetryAfterSeconds
  /\ Strip(email.id) = << >> => email.gets = 0
\* A returned dict has exactly the PROPERTIES keys; it has a value that is
\* not '' only if the final response was a 200, and for a blank emailId all
\* its values are ''.
EmailDictWellFormed ==
  email.result.kind = "dict" =>
    /\ DOMAIN email.result.value = PROPERTIES
    /\ email.result.value # EmptyProperties => email.final.status_code = 200
    /\ Strip(email.id) = << >> => email.result.value = EmptyProperties

\* C21: fetch_email_properties issues at most two requests, the second only
\* after a 429 and its sleep, and whenever it has ended it has returned a dict
\* with exactly the PROPERTIES keys, whose values are all '' unless the final
\* response was a 200; a blank emailId costs no request.
C21_TwoGetsThenADict ==
  /\ EmailRequestsBounded
  /\ EmailDictWellFormed
  /\ EmailEnded => email.result.kind = "dict"

\* What does hold: the bounds on requests and the shape of every returned
\* dict; and the call ends without a dict only after a 429 whose Retry-After
\* is not a non-negative integer, or after a final 200 whose body is not a
\* JSON object with an object (or nothing) under "properties".
EmailRaisesOnlyOnBadInput ==
  /\ EmailRequestsBounded
  /\ EmailDictWellFormed
  /\ (EmailEnded /\ email.result.kind # "dict") =>
       \/ /\ email.gets = 1
          /\ email.first.status_code = 429
          /\ LET text == Get(email.first.headers, "Retry-After", << "6", "0" >>) IN
               ~IsInt(text) \/ ParseInt(text) < 0
       \/ /\ email.final.status_code = 200
          /\ \/ email.final.body.type # "object"
             \/ Get(email.final.body.members, "properties", JsonObject(<< >>)).type # "object"
====
